---- MODULE Spec2Model ----
(***************************************************************************)
(* Model of scripts/ai-reviewer/review-agent.py: a single-shot script that *)
(* fetches a pull request, asks a language model for a review and posts    *)
(* the review back as line comments.                                       *)
(*                                                                         *)
(* Text is modelled as a sequence of lexical atoms.  An atom is either one *)
(* character (bracket, brace, comma, colon, double quote, blank, digit,    *)
(* minus) or an indivisible word.  The two literals the script searches    *)
(* for, "ACTION:" and "READY_FOR_HUMAN_REVIEW", are atoms of their own, so *)
(* that str.split and the `in` test are computed on the text itself and    *)
(* not on the structure the text was meant to carry.                       *)
(***************************************************************************)
EXTENDS Integers, Sequences, FiniteSets, TLC

\* ---------------------------------------------------------------- bounds
MaxEntries == 2   \* longest JSON array the language model emits

\* ---------------------------------------------------------------- atoms
QUOTE  == "\""
WS     == " "
ActionSep == "ACTION:"
ReadyMarker == "READY_FOR_HUMAN_REVIEW"
Digits == {"0", "1", "2", "3", "4", "5", "6", "7", "8", "9"}
DigitVal == [d \in Digits |->
    CASE d = "0" -> 0 [] d = "1" -> 1 [] d = "2" -> 2 [] d = "3" -> 3
      [] d = "4" -> 4 [] d = "5" -> 5 [] d = "6" -> 6 [] d = "7" -> 7
      [] d = "8" -> 8 [] d = "9" -> 9]

\* ------------------------------------------------------- Python values
\* A decoded JSON value is a tagged record: str (v = atoms), num (v = Int),
\* null, arr (v = sequence of values), obj (v = sequence of <<key, value>>).
StrV(s)  == [t |-> "str", v |-> s]
NumV(n)  == [t |-> "num", v |-> n]
NullV    == [t |-> "null", v |-> 0]
ArrV(xs) == [t |-> "arr", v |-> xs]
ObjV(ms) == [t |-> "obj", v |-> ms]
NoValue  == [t |-> "none", v |-> 0]

\* ------------------------------------------------------------ str / int
\* First index >= i of s that holds atom a, or Len(s)+1.
RECURSIVE Find(_, _, _)
Find(s, a, i) ==
    IF i > Len(s) THEN Len(s) + 1
    ELSE IF s[i] = a THEN i ELSE Find(s, a, i + 1)

\* raw_response.split("ACTION:")[0]: the text before the first "ACTION:".
SplitFirst(s, sep) == SubSeq(s, 1, Find(s, sep, 1) - 1)

RECURSIVE SkipWs(_, _)
SkipWs(s, i) ==
    IF i > Len(s) THEN Len(s) + 1
    ELSE IF s[i] = WS THEN SkipWs(s, i + 1) ELSE i

RECURSIVE LastNonWs(_, _)
LastNonWs(s, i) ==
    IF i < 1 THEN 0
    ELSE IF s[i] = WS THEN LastNonWs(s, i - 1) ELSE i

\* str.strip()
Strip(s) == SubSeq(s, SkipWs(s, 1), LastNonWs(s, Len(s)))

\* "READY_FOR_HUMAN_REVIEW" in raw_response
Contains(s, a) == Find(s, a, 1) <= Len(s)

\* Index just past the maximal run of digits that starts at i.
RECURSIVE DigitsEnd(_, _)
DigitsEnd(s, i) ==
    IF i <= Len(s) /\ s[i] \in Digits THEN DigitsEnd(s, i + 1) ELSE i

RECURSIVE DigitsValue(_, _, _, _)
DigitsValue(s, i, j, acc) ==
    IF i >= j THEN acc
    ELSE DigitsValue(s, i + 1, j, acc * 10 + DigitVal[s[i]])

\* A conversion that yields 0 for text that is no integer literal.
PyIntStr_Lenient(s) ==
    LET u  == Strip(s)
        e  == DigitsEnd(u, 1)
    IN  [ok |-> TRUE,
         val |-> IF e > 1 /\ e = Len(u) + 1 THEN DigitsValue(u, 1, e, 0) ELSE 0]

\* int(str): blanks around an optional sign and one or more digits.
PyIntStr(s) ==
    LET u  == Strip(s)
        neg == Len(u) >= 1 /\ u[1] = "-"
        b  == IF neg THEN 2 ELSE 1
        e  == DigitsEnd(u, b)
    IN  IF e > b /\ e = Len(u) + 1
        THEN [ok |-> TRUE,
              val |-> IF neg THEN 0 - DigitsValue(u, b, e, 0)
                             ELSE DigitsValue(u, b, e, 0)]
        ELSE [ok |-> FALSE, val |-> 0]

\* int(x) for a decoded JSON value x.
PyInt(x) ==
    CASE x.t = "num" -> [ok |-> TRUE, val |-> x.v]
      [] x.t = "str" -> PyIntStr(x.v)
      [] OTHER       -> [ok |-> FALSE, val |-> 0]

\* ----------------------------------------------------------- json.loads
ParseFail == [ok |-> FALSE, val |-> NoValue, next |-> 0]
ParseOk(v, n) == [ok |-> TRUE, val |-> v, next |-> n]

\* A string literal: everything up to the next double quote.
ParseString(s, j) ==
    LET k == Find(s, QUOTE, j + 1)
    IN  IF k > Len(s) THEN ParseFail
        ELSE ParseOk(StrV(SubSeq(s, j + 1, k - 1)), k + 1)

\* A number literal: -?(0|[1-9][0-9]*)
ParseNumber(s, j) ==
    LET neg == s[j] = "-"
        b   == IF neg THEN j + 1 ELSE j
        e   == IF b <= Len(s) /\ s[b] = "0" THEN b + 1 ELSE DigitsEnd(s, b)
        n   == DigitsValue(s, b, e, 0)
    IN  IF e = b THEN ParseFail
        ELSE ParseOk(NumV(IF neg THEN 0 - n ELSE n), e)

RECURSIVE ParseValue(_, _), ParseElems(_, _, _), ParseMembers(_, _, _)
ParseValue(s, i) ==
    LET j == SkipWs(s, i)
    IN  IF j > Len(s) THEN ParseFail
        ELSE CASE s[j] = "[" ->
                    LET k == SkipWs(s, j + 1)
                    IN  IF k <= Len(s) /\ s[k] = "]"
                        THEN ParseOk(ArrV(<<>>), k + 1)
                        ELSE ParseElems(s, j + 1, <<>>)
               [] s[j] = "{" ->
                    LET k == SkipWs(s, j + 1)
                    IN  IF k <= Len(s) /\ s[k] = "}"
                        THEN ParseOk(ObjV(<<>>), k + 1)
                        ELSE ParseMembers(s, j + 1, <<>>)
               [] s[j] = QUOTE -> ParseString(s, j)
               [] s[j] = "-" \/ s[j] \in Digits -> ParseNumber(s, j)
               [] s[j] = "null" -> ParseOk(NullV, j + 1)
               [] OTHER -> ParseFail

ParseElems(s, i, acc) ==
    LET r == ParseValue(s, i)
    IN  IF ~r.ok THEN ParseFail
        ELSE LET k == SkipWs(s, r.next)
             IN  IF k > Len(s) THEN ParseFail
                 ELSE IF s[k] = "," THEN ParseElems(s, k + 1, Append(acc, r.val))
                 ELSE IF s[k] = "]" THEN ParseOk(ArrV(Append(acc, r.val)), k + 1)
                 ELSE ParseFail

ParseMembers(s, i, acc) ==
    LET j == SkipWs(s, i)
    IN  IF j > Len(s) \/ s[j] # QUOTE THEN ParseFail
        ELSE LET key == ParseString(s, j)
             IN  IF ~key.ok THEN ParseFail
                 ELSE LET c == SkipWs(s, key.next)
                      IN  IF c > Len(s) \/ s[c] # ":" THEN ParseFail
                          ELSE LET r == ParseValue(s, c + 1)
                               IN  IF ~r.ok THEN ParseFail
                                   ELSE LET k  == SkipWs(s, r.next)
                                            ms == Append(acc, <<key.val.v, r.val>>)
                                        IN  IF k > Len(s) THEN ParseFail
                                            ELSE IF s[k] = "," THEN ParseMembers(s, k + 1, ms)
                                            ELSE IF s[k] = "}" THEN ParseOk(ObjV(ms), k + 1)
                                            ELSE ParseFail

\* json.loads(s): one value, blanks allowed around it, nothing after it.
JsonLoads(s) ==
    LET r == ParseValue(s, 1)
    IN  IF r.ok /\ SkipWs(s, r.next) > Len(s)
        THEN [ok |-> TRUE, val |-> r.val]
        ELSE [ok |-> FALSE, val |-> NoValue]

\* ------------------------------------------------- dict / list protocol
\* c[key] on a decoded value: only a dict has string keys, the last
\* duplicate wins, a missing key raises.
RECURSIVE Lookup(_, _, _)
Lookup(ms, key, i) ==
    IF i < 1 THEN [ok |-> FALSE, val |-> NoValue]
    ELSE IF ms[i][1] = key THEN [ok |-> TRUE, val |-> ms[i][2]]
    ELSE Lookup(ms, key, i - 1)

GetItem(c, key) ==
    IF c.t = "obj" THEN Lookup(c.v, key, Len(c.v))
    ELSE [ok |-> FALSE, val |-> NoValue]

\* `for c in comments`: a list yields its elements, a dict its keys, a str
\* its characters; a number or None is not iterable.
Iterate(v) ==
    CASE v.t = "arr" -> [ok |-> TRUE, items |-> v.v]
      [] v.t = "obj" -> [ok |-> TRUE,
                         items |-> [i \in 1..Len(v.v) |-> StrV(v.v[i][1])]]
      [] v.t = "str" -> [ok |-> TRUE,
                         items |-> [i \in 1..Len(v.v) |-> StrV(<<v.v[i]>>)]]
      [] OTHER       -> [ok |-> FALSE, items |-> <<>>]

\* Keyword arguments with body and path taken from each other's key.
EntryArgs_Swapped(c, commit_) ==
    LET b == GetItem(c, <<"path">>)
        p == GetItem(c, <<"comment">>)
        l == GetItem(c, <<"line">>)
        n == IF l.ok THEN PyInt(l.val) ELSE [ok |-> FALSE, val |-> 0]
    IN  [ok   |-> b.ok /\ p.ok /\ l.ok /\ n.ok,
         args |-> [body |-> b.val, commit |-> commit_,
                   path |-> p.val, line |-> n.val]]

\* The keyword arguments of pr.create_review_comment for entry c.
EntryArgs(c, commit_) ==
    LET b == GetItem(c, <<"comment">>)
        p == GetItem(c, <<"path">>)
        l == GetItem(c, <<"line">>)
        n == IF l.ok THEN PyInt(l.val) ELSE [ok |-> FALSE, val |-> 0]
    IN  [ok   |-> b.ok /\ p.ok /\ l.ok /\ n.ok,
         args |-> [body |-> b.val, commit |-> commit_,
                   path |-> p.val, line |-> n.val]]

\* raw_response.split("ACTION:")[0].strip()
Payload(raw) == Strip(SplitFirst(raw, ActionSep))

\* A marker test that looks only at the text after the first "ACTION:".
MarkerIn_AfterAction(raw) ==
    Contains(SubSeq(raw, Find(raw, ActionSep, 1) + 1, Len(raw)), ReadyMarker)

\* if "READY_FOR_HUMAN_REVIEW" in raw_response
MarkerIn(raw) == Contains(raw, ReadyMarker)

HUMAN_REVIEWER == "reviewer"

HandoffBody(who) ==
    <<"AI Review complete. Reassigning to @", who, " for final sign-off.">>

\* A fallback body that quotes the payload only.
FallbackBody_PayloadOnly(raw) == <<"AI Review Error: ">> \o Payload(raw)

FallbackBody(raw) == <<"AI Review Error: ">> \o raw

\* A fallback that goes on to the marker test.
AfterFallback_ChecksMarker(raw) ==
    IF Contains(raw, ReadyMarker) THEN "assign" ELSE "done"

\* Where apply_line_comments continues once the fallback comment is posted.
AfterFallback(raw) == "done"

\* A loop that skips every other entry.
NextIdx_Skip(i) == i + 2

\* The loop moves to the next entry.
NextIdx(i) == i + 1

\* ------------------------------------------------------ the environment
\* Pull requests that exist on flutter/flutter-intellij.
ExistingPRs == {7}

\* A lookup that does not ask the server.
GetPullResolves_Lazy(n) == TRUE

\* repo.get_pull(n) finds the pull request.
GetPullResolves(n) == n \in ExistingPRs

\* Command lines: sys.argv[1].
Argvs == { <<"7">>, <<"4", "2">>, <<"-", "7">>, <<"a", "b">>, <<"7", "a">>, <<>> }

\* Commits pr.get_commits() may report as the latest.
Commits == {"sha1", "sha2"}

\* What the language model writes.  The prompt asks for a JSON list of
\* objects with keys path, line, comment, followed by the marker; the model
\* is free to write anything.
RECURSIVE RenderNat(_)
RenderNat(n) ==
    LET d == CHOOSE c \in Digits : DigitVal[c] = n % 10
    IN  IF n < 10 THEN <<d>> ELSE RenderNat(n \div 10) \o <<d>>

RECURSIVE RenderValue(_), RenderElems(_, _), RenderMembers(_, _)
RenderValue(v) ==
    CASE v.t = "str"  -> <<QUOTE>> \o v.v \o <<QUOTE>>
      [] v.t = "num"  -> IF v.v < 0 THEN <<"-">> \o RenderNat(0 - v.v)
                                    ELSE RenderNat(v.v)
      [] v.t = "null" -> <<"null">>
      [] v.t = "arr"  -> <<"[">> \o RenderElems(v.v, 1) \o <<"]">>
      [] v.t = "obj"  -> <<"{">> \o RenderMembers(v.v, 1) \o <<"}">>

RenderElems(xs, i) ==
    IF i > Len(xs) THEN <<>>
    ELSE RenderValue(xs[i])
         \o (IF i < Len(xs) THEN <<",", WS>> ELSE <<>>)
         \o RenderElems(xs, i + 1)

RenderMembers(ms, i) ==
    IF i > Len(ms) THEN <<>>
    ELSE <<QUOTE>> \o ms[i][1] \o <<QUOTE, ":", WS>> \o RenderValue(ms[i][2])
         \o (IF i < Len(ms) THEN <<",", WS>> ELSE <<>>)
         \o RenderMembers(ms, i + 1)

Entry(p, l, c) ==
    ObjV(<< <<<<"path">>, StrV(p)>>, <<<<"line">>, l>>, <<<<"comment">>, StrV(c)>> >>)

LineValues == { NumV(10), StrV(<<"2", "5">>), StrV(<<"x">>), NullV }

CommentTexts == { <<"fix">>, <<ActionSep, "fix">>, <<"fix", ReadyMarker>> }

KeyedEntries ==
    { Entry(<<"a">>, l, c) : l \in LineValues, c \in CommentTexts }
    \cup { Entry(<<ActionSep, "a">>, NumV(10), <<"fix">>) }

Elements ==
    KeyedEntries
    \cup { ObjV(<< <<<<"path">>, StrV(<<"a">>)>>, <<<<"comment">>, StrV(<<"fix">>)>> >>),
           NumV(1) }

Arrays == UNION { [1..n -> Elements] : n \in 0..MaxEntries }

Marker == <<WS, ActionSep, WS, ReadyMarker>>

Trailers == { Marker, <<>>, <<WS, ReadyMarker>> }

OtherBodies ==
    { <<"fix">>, <<"fix", ReadyMarker>>, <<>>,
      <<"[", "{", QUOTE, "path", QUOTE, ":", QUOTE, "a", QUOTE>>,
      <<"[", "1", ",", "]">>,
      <<"{", "}">>, <<QUOTE, "a", QUOTE>>, <<"1", "2">>, <<"null">> }

\* A reply: the array the model meant to send (NoValue when it sent other
\* text), the text of the body and the text after it.
Replies ==
    { [json |-> ArrV(a), body |-> RenderValue(ArrV(a)), trailer |-> t] :
          a \in Arrays, t \in Trailers }
    \cup { [json |-> NoValue, body |-> b, trailer |-> t] :
          b \in OtherBodies, t \in Trailers }

\* ------------------------------------------------------------ the state
VARIABLES
    pc,            \* the statement the script is about to run
    argv,          \* sys.argv[1]
    PR_NUMBER,     \* int(sys.argv[1])
    commit,        \* latest_commit
    reply,         \* what the language model composed
    raw_response,  \* response.text
    comments,      \* json.loads(json_str)
    idx,           \* position of the for loop in comments (1-based)
    calls,         \* remote calls made so far, in order, with their outcome
    err,           \* the exception caught by `except Exception as e`
    printed        \* lines written by print

vars == <<pc, argv, PR_NUMBER, commit, reply, raw_response, comments, idx,
          calls, err, printed>>

NoErr == [kind |-> "none", at |-> 0]
NoReply == [json |-> NoValue, body |-> <<>>, trailer |-> <<>>]

Call(op, arg, ok) == [op |-> op, arg |-> arg, ok |-> ok]

Init ==
    /\ pc = "parse_argv"
    /\ argv \in Argvs
    /\ PR_NUMBER = 0
    /\ commit = "none"
    /\ reply = NoReply
    /\ raw_response = <<>>
    /\ comments = NoValue
    /\ idx = 1
    /\ calls = <<>>
    /\ err = NoErr
    /\ printed = <<>>

\* line 11: PR_NUMBER = int(sys.argv[1])
ParseArgv ==
    /\ pc = "parse_argv"
    /\ LET n == PyIntStr(argv)
       IN  IF n.ok THEN /\ PR_NUMBER' = n.val
                        /\ pc' = "configure"
                   ELSE /\ PR_NUMBER' = PR_NUMBER
                        /\ pc' = "crashed"
    /\ UNCHANGED <<argv, commit, reply, raw_response, comments, idx, calls,
                   err, printed>>

\* lines 13-14: genai.configure and Github(...) build clients, no request.
Configure ==
    /\ pc = "configure"
    /\ pc' = "get_repo"
    /\ UNCHANGED <<argv, PR_NUMBER, commit, reply, raw_response, comments,
                   idx, calls, err, printed>>

\* line 15: repo = gh.get_repo(...)
GetRepo ==
    /\ pc = "get_repo"
    /\ \E ok \in BOOLEAN :
          /\ calls' = Append(calls, Call("get_repo", <<>>, ok))
          /\ pc' = IF ok THEN "get_pull" ELSE "crashed"
    /\ UNCHANGED <<argv, PR_NUMBER, commit, reply, raw_response, comments,
                   idx, err, printed>>

\* line 16: pr = repo.get_pull(PR_NUMBER)
GetPull ==
    /\ pc = "get_pull"
    /\ \E net \in BOOLEAN :
          LET ok == net /\ GetPullResolves(PR_NUMBER)
          IN  /\ calls' = Append(calls, Call("get_pull", PR_NUMBER, ok))
              /\ pc' = IF ok THEN "read_standards" ELSE "crashed"
    /\ UNCHANGED <<argv, PR_NUMBER, commit, reply, raw_response, comments,
                   idx, err, printed>>

\* lines 19-20: open("docs/ai-standards.md") and read it.
ReadStandards ==
    /\ pc = "read_standards"
    /\ \E readable \in BOOLEAN :
          pc' = IF readable THEN "get_commits" ELSE "crashed"
    /\ UNCHANGED <<argv, PR_NUMBER, commit, reply, raw_response, comments,
                   idx, calls, err, printed>>

\* line 23: latest_commit = pr.get_commits().reversed[0]
GetCommits ==
    /\ pc = "get_commits"
    /\ \/ \E sha \in Commits :
             /\ commit' = sha
             /\ calls' = Append(calls, Call("get_commits", <<>>, TRUE))
             /\ pc' = "compare"
       \/ /\ commit' = commit
          /\ calls' = Append(calls, Call("get_commits", <<>>, FALSE))
          /\ pc' = "crashed"
    /\ UNCHANGED <<argv, PR_NUMBER, reply, raw_response, comments, idx, err,
                   printed>>

\* lines 26-29: repo.compare(base, head) and the walk over its files.
Compare ==
    /\ pc = "compare"
    /\ \E ok \in BOOLEAN :
          /\ calls' = Append(calls, Call("compare", <<>>, ok))
          /\ pc' = IF ok THEN "generate" ELSE "crashed"
    /\ UNCHANGED <<argv, PR_NUMBER, commit, reply, raw_response, comments,
                   idx, err, printed>>

\* lines 48-50: model.generate_content(prompt); return response.text
GenerateContent ==
    /\ pc = "generate"
    /\ \/ \E r \in Replies :
             /\ reply' = r
             /\ raw_response' = r.body \o r.trailer
             /\ calls' = Append(calls, Call("generate_content", <<>>, TRUE))
             /\ pc' = "parse"
       \/ /\ UNCHANGED <<reply, raw_response>>
          /\ calls' = Append(calls, Call("generate_content", <<>>, FALSE))
          /\ pc' = "crashed"
    /\ UNCHANGED <<argv, PR_NUMBER, commit, comments, idx, err, printed>>

\* lines 55-56: json_str = ...; comments = json.loads(json_str)
ParsePayload ==
    /\ pc = "parse"
    /\ LET r == JsonLoads(Payload(raw_response))
       IN  IF r.ok THEN /\ comments' = r.val
                        /\ err' = err
                        /\ pc' = "loop"
                   ELSE /\ comments' = comments
                        /\ err' = [kind |-> "json", at |-> 0]
                        /\ pc' = "except"
    /\ UNCHANGED <<argv, PR_NUMBER, commit, reply, raw_response, idx, calls,
                   printed>>

\* line 58: `for c in comments` on a value that is not iterable.
IterateRaises ==
    /\ pc = "loop"
    /\ ~Iterate(comments).ok
    /\ err' = [kind |-> "iterate", at |-> 0]
    /\ pc' = "except"
    /\ UNCHANGED <<argv, PR_NUMBER, commit, reply, raw_response, comments,
                   idx, calls, printed>>

\* lines 58-65: one round of the loop, pr.create_review_comment(...)
CreateReviewComment ==
    /\ pc = "loop"
    /\ Iterate(comments).ok
    /\ idx <= Len(Iterate(comments).items)
    /\ LET a == EntryArgs(Iterate(comments).items[idx], commit)
       IN  IF ~a.ok
           THEN /\ err' = [kind |-> "entry", at |-> idx]
                /\ pc' = "except"
                /\ UNCHANGED <<idx, calls>>
           ELSE \E ok \in BOOLEAN :
                   /\ calls' = Append(calls,
                                  Call("create_review_comment", a.args, ok))
                   /\ IF ok THEN /\ idx' = NextIdx(idx)
                                 /\ UNCHANGED <<err, pc>>
                            ELSE /\ err' = [kind |-> "review_call", at |-> idx]
                                 /\ pc' = "except"
                                 /\ idx' = idx
    /\ UNCHANGED <<argv, PR_NUMBER, commit, reply, raw_response, comments,
                   printed>>

\* line 67: the loop is over; if "READY_FOR_HUMAN_REVIEW" in raw_response
CheckMarker ==
    /\ pc = "loop"
    /\ Iterate(comments).ok
    /\ idx > Len(Iterate(comments).items)
    /\ pc' = IF MarkerIn(raw_response) THEN "assign" ELSE "done"
    /\ UNCHANGED <<argv, PR_NUMBER, commit, reply, raw_response, comments,
                   idx, calls, err, printed>>

\* line 68: pr.add_to_assignees(HUMAN_REVIEWER)
AddToAssignees ==
    /\ pc = "assign"
    /\ \E ok \in BOOLEAN :
          /\ calls' = Append(calls, Call("add_to_assignees", HUMAN_REVIEWER, ok))
          /\ IF ok THEN /\ pc' = "handoff"
                        /\ err' = err
                   ELSE /\ pc' = "except"
                        /\ err' = [kind |-> "assign_call", at |-> 0]
    /\ UNCHANGED <<argv, PR_NUMBER, commit, reply, raw_response, comments,
                   idx, printed>>

\* line 69: pr.create_issue_comment("AI Review complete. ...")
HandoffComment ==
    /\ pc = "handoff"
    /\ \E ok \in BOOLEAN :
          /\ calls' = Append(calls, Call("create_issue_comment",
                                         HandoffBody(HUMAN_REVIEWER), ok))
          /\ IF ok THEN /\ pc' = "done"
                        /\ err' = err
                   ELSE /\ pc' = "except"
                        /\ err' = [kind |-> "handoff_call", at |-> 0]
    /\ UNCHANGED <<argv, PR_NUMBER, commit, reply, raw_response, comments,
                   idx, printed>>

\* lines 71-74: print the error, post the raw response as one comment.
Fallback ==
    /\ pc = "except"
    /\ printed' = Append(printed, <<"Error parsing AI response: ", err.kind>>)
    /\ \E ok \in BOOLEAN :
          /\ calls' = Append(calls, Call("create_issue_comment",
                                         FallbackBody(raw_response), ok))
          /\ pc' = IF ok THEN AfterFallback(raw_response) ELSE "crashed"
    /\ UNCHANGED <<argv, PR_NUMBER, commit, reply, raw_response, comments,
                   idx, err>>

Next ==
    \/ ParseArgv
    \/ Configure
    \/ GetRepo
    \/ GetPull
    \/ ReadStandards
    \/ GetCommits
    \/ Compare
    \/ GenerateContent
    \/ ParsePayload
    \/ IterateRaises
    \/ CreateReviewComment
    \/ CheckMarker
    \/ AddToAssignees
    \/ HandoffComment
    \/ Fallback

Spec == Init /\ [][Next]_vars

\* ------------------------------------------------------- observations
Generated == \E i \in 1..Len(calls) :
                calls[i].op = "generate_content" /\ calls[i].ok

Finished == pc \in {"done", "crashed"}

AllCallsOk == \A i \in 1..Len(calls) : calls[i].ok

IsReview(c)   == c.op = "create_review_comment"
IsAssign(c)   == c.op = "add_to_assignees"
IsHandoff(c)  == c.op = "create_issue_comment"
                 /\ c.arg[1] = "AI Review complete. Reassigning to @"
IsFallback(c) == c.op = "create_issue_comment"
                 /\ c.arg[1] = "AI Review Error: "

ReviewCalls   == SelectSeq(calls, IsReview)
AssignCalls   == SelectSeq(calls, IsAssign)
HandoffCalls  == SelectSeq(calls, IsHandoff)
FallbackCalls == SelectSeq(calls, IsFallback)

\* The calls made by apply_line_comments: everything after generate_content.
RECURSIVE ApplierCalls(_)
ApplierCalls(cs) ==
    IF cs = <<>> THEN <<>>
    ELSE IF Head(cs).op = "generate_content" THEN Tail(cs)
    ELSE ApplierCalls(Tail(cs))

\* An entry with the three keys.
HasKeys(c) ==
    /\ c.t = "obj"
    /\ \A k \in {<<"path">>, <<"line">>, <<"comment">>} :
          \E i \in 1..Len(c.v) : c.v[i][1] = k

\* An entry with the three keys whose line int() accepts.
LineConverts(c) ==
    /\ HasKeys(c)
    /\ LET l == GetItem(c, <<"line">>).val
       IN  \/ l.t = "num"
           \/ l.t = "str" /\ PyIntStr(l.v).ok

\* Call k carries path, line and comment of entry c and the commit.
Carries(k, c) ==
    /\ k.arg.path = GetItem(c, <<"path">>).val
    /\ k.arg.body = GetItem(c, <<"comment">>).val
    /\ k.arg.commit = commit
    /\ LET l == GetItem(c, <<"line">>).val
       IN  k.arg.line = (IF l.t = "num" THEN l.v ELSE PyIntStr(l.v).val)

\* --------------------------------------------------------------- claims

\* C1 (as stated): when the payload is a JSON array of N entries that each
\* have the keys path, line and comment, and every remote call succeeds, the
\* finished run has made exactly N create_review_comment calls, the i-th
\* carrying the i-th entry, and no fallback comment.
C1_AsStated ==
    (/\ pc = "done"
     /\ AllCallsOk
     /\ comments.t = "arr"
     /\ \A i \in 1..Len(comments.v) : HasKeys(comments.v[i]))
    => /\ Len(ReviewCalls) = Len(comments.v)
       /\ FallbackCalls = <<>>

\* C1 (amended): when the payload is a JSON array of N entries that each
\* have the keys path, line and comment with a line value int() accepts, and
\* every remote call succeeds, the finished run has made exactly N
\* create_review_comment calls, the i-th carrying path, int(line) and
\* comment of the i-th entry and the commit passed in, and no fallback
\* comment.
C1_LineComments ==
    (/\ pc = "done"
     /\ AllCallsOk
     /\ comments.t = "arr"
     /\ \A i \in 1..Len(comments.v) : LineConverts(comments.v[i]))
    => /\ Len(ReviewCalls) = Len(comments.v)
       /\ \A i \in 1..Len(comments.v) : Carries(ReviewCalls[i], comments.v[i])
       /\ FallbackCalls = <<>>

C1_Witness ==
    /\ pc = "done"
    /\ AllCallsOk
    /\ comments.t = "arr"
    /\ Len(comments.v) = 2
    /\ comments.v[1] # comments.v[2]
    /\ \A i \in 1..2 : LineConverts(comments.v[i])
    /\ Len(ReviewCalls) = 2

\* C2 (as stated): a reply made of a JSON array of well-formed entries
\* followed by "ACTION: READY_FOR_HUMAN_REVIEW", every remote call
\* succeeding, ends with one line comment per entry, then exactly one
\* add_to_assignees, then exactly one handoff comment, and nothing else.
C2_AsStated ==
    (/\ pc = "done"
     /\ AllCallsOk
     /\ reply.json.t = "arr"
     /\ \A i \in 1..Len(reply.json.v) : LineConverts(reply.json.v[i])
     /\ reply.trailer = Marker)
    => LET a == ApplierCalls(calls)
           n == Len(reply.json.v)
       IN  /\ Len(a) = n + 2
           /\ \A i \in 1..n : IsReview(a[i]) /\ Carries(a[i], reply.json.v[i])
           /\ IsAssign(a[n + 1])
           /\ IsHandoff(a[n + 2])

\* C3: when the payload before "ACTION:" does not parse as JSON, no line
\* comment is ever posted, and the finished run has made exactly one issue
\* comment call, whose body is the error label followed by the whole raw
\* response.
C3_UnparsableFallsBack ==
    (Generated /\ ~JsonLoads(Payload(raw_response)).ok)
    => /\ ReviewCalls = <<>>
       /\ Finished =>
            /\ Len(SelectSeq(calls, LAMBDA c : c.op = "create_issue_comment")) = 1
            /\ Len(FallbackCalls) = 1
            /\ FallbackCalls[1].arg = <<"AI Review Error: ">> \o raw_response

C3_Witness ==
    /\ pc = "done"
    /\ err.kind = "json"
    /\ Contains(raw_response, ActionSep)
    /\ Len(FallbackCalls) = 1
    /\ FallbackCalls[1].ok

\* C4 (as stated): whenever "READY_FOR_HUMAN_REVIEW" occurs anywhere in the
\* raw response and every remote call succeeds, the finished run has
\* assigned the reviewer and posted the handoff comment.
C4_AsStated ==
    (/\ pc = "done"
     /\ AllCallsOk
     /\ Contains(raw_response, ReadyMarker))
    => /\ Len(AssignCalls) = 1
       /\ Len(HandoffCalls) = 1

\* C4 (amended): whenever "READY_FOR_HUMAN_REVIEW" occurs anywhere in the
\* raw response, the text before the first "ACTION:" parses as JSON, the
\* parsed value can be iterated, every item of it converts to a line
\* comment and every remote call succeeds,
\* the finished run has assigned the configured reviewer exactly once and
\* then posted exactly one handoff comment addressed to that reviewer.
C4_MarkerAssigns ==
    (/\ pc = "done"
     /\ AllCallsOk
     /\ Contains(raw_response, ReadyMarker)
     /\ LET r == JsonLoads(Payload(raw_response))
        IN  /\ r.ok
            /\ Iterate(r.val).ok
            /\ \A i \in 1..Len(Iterate(r.val).items) :
                  EntryArgs(Iterate(r.val).items[i], commit).ok)
    => LET a == ApplierCalls(calls)
       IN  /\ Len(AssignCalls) = 1
           /\ Len(HandoffCalls) = 1
           /\ Len(a) >= 2
           /\ IsAssign(a[Len(a) - 1])
           /\ a[Len(a) - 1].arg = HUMAN_REVIEWER
           /\ IsHandoff(a[Len(a)])
           /\ a[Len(a)].arg[2] = HUMAN_REVIEWER

\* The marker stands inside a comment text only; the reply has no "ACTION:".
C4_Witness ==
    /\ pc = "done"
    /\ AllCallsOk
    /\ Contains(raw_response, ReadyMarker)
    /\ ~Contains(raw_response, ActionSep)
    /\ Len(ReviewCalls) >= 1
    /\ Len(AssignCalls) = 1
    /\ Len(HandoffCalls) = 1

\* C5 (as stated): under any outcomes of the remote calls, if the fallback
\* comment is posted then the reviewer has not been assigned and no handoff
\* comment has been posted in that run.
C5_AsStated ==
    (\E i \in 1..Len(FallbackCalls) : FallbackCalls[i].ok)
    => /\ \A i \in 1..Len(AssignCalls) : ~AssignCalls[i].ok
       /\ \A i \in 1..Len(HandoffCalls) : ~HandoffCalls[i].ok

\* C5 (amended): under any outcomes of the remote calls, if the fallback
\* comment call is made then no handoff comment has been posted in that
\* run; the reviewer has been assigned in such a run exactly when the
\* handoff comment call that followed the assignment failed.
C5_FallbackExcludesHandoff ==
    (FallbackCalls # <<>>)
    => /\ \A i \in 1..Len(HandoffCalls) : ~HandoffCalls[i].ok
       /\ (\E i \in 1..Len(AssignCalls) : AssignCalls[i].ok)
             <=> (HandoffCalls # <<>>)

C5_Witness ==
    /\ pc = "done"
    /\ Len(FallbackCalls) = 1
    /\ FallbackCalls[1].ok
    /\ Len(AssignCalls) = 1
    /\ AssignCalls[1].ok
    /\ Len(HandoffCalls) = 1
    /\ ~HandoffCalls[1].ok

\* C6: when the pull-request number names no pull request on the
\* repository, the run crashes at the lookup: generate_content is never
\* called, nothing is commented or assigned, and once the lookup has been
\* made the process is dead.
C6_MissingPullStopsEarly ==
    (pc # "parse_argv" /\ PR_NUMBER \notin ExistingPRs)
    => /\ \A i \in 1..Len(calls) : calls[i].op \in {"get_repo", "get_pull"}
       /\ pc \in {"configure", "get_repo", "get_pull", "crashed"}
       /\ (\E i \in 1..Len(calls) : calls[i].op = "get_pull") => pc = "crashed"

C6_Witness ==
    /\ pc = "crashed"
    /\ PR_NUMBER = 42
    /\ Len(calls) = 2
    /\ calls[1].op = "get_repo" /\ calls[1].ok
    /\ calls[2].op = "get_pull" /\ ~calls[2].ok

\* C7: when the argument is not an integer literal, no remote call of any
\* kind is ever made and the process ends at the conversion.
C7_BadArgumentNoNetwork ==
    LET body == IF argv # <<>> /\ argv[1] = "-" THEN Tail(argv) ELSE argv
        numeric == body # <<>> /\ \A i \in 1..Len(body) : body[i] \in Digits
    IN  ~numeric => calls = <<>> /\ pc \in {"parse_argv", "crashed"}

C7_Witness ==
    /\ pc = "crashed"
    /\ argv = <<"7", "a">>
    /\ calls = <<>>

\* C8: when JSON parsing succeeded and the k-th round of the loop raised (in
\* the call or in the conversion of the entry), the finished run has posted
\* exactly the first k-1 entries as line comments, attempted no later
\* entry, printed the error and made exactly one fallback comment call
\* carrying the whole raw response; and a run that returns normally has
\* either posted every parsed entry or posted the fallback comment with the
\* whole raw response.
C8_PartialThenFallback ==
    LET items == Iterate(comments).items
        okReviews == SelectSeq(ReviewCalls, LAMBDA c : c.ok)
    IN  /\ (err.kind \in {"entry", "review_call"} /\ Finished)
           => /\ Len(okReviews) = err.at - 1
              /\ \A j \in 1..(err.at - 1) : Carries(okReviews[j], items[j])
              /\ Len(ReviewCalls) =
                    (IF err.kind = "review_call" THEN err.at ELSE err.at - 1)
              /\ Len(printed) = 1
              /\ Len(FallbackCalls) = 1
              /\ FallbackCalls[1].arg = <<"AI Review Error: ">> \o raw_response
        /\ pc = "done"
           => \/ /\ Iterate(comments).ok
                 /\ Len(okReviews) = Len(items)
                 /\ \A j \in 1..Len(items) : Carries(okReviews[j], items[j])
              \/ /\ Len(FallbackCalls) = 1
                 /\ FallbackCalls[1].ok
                 /\ FallbackCalls[1].arg = <<"AI Review Error: ">> \o raw_response

C8_Witness ==
    /\ pc = "done"
    /\ err = [kind |-> "review_call", at |-> 2]
    /\ Len(ReviewCalls) = 2
    /\ ReviewCalls[1].ok
    /\ ~ReviewCalls[2].ok
    /\ Len(FallbackCalls) = 1

\* C9: when the payload fails to parse, add_to_assignees is never called and
\* no handoff comment is posted, also when the marker is in the raw text.
C9_UnparsableNeverAssigns ==
    (Generated /\ ~JsonLoads(Payload(raw_response)).ok)
    => AssignCalls = <<>> /\ HandoffCalls = <<>>

C9_Witness ==
    /\ pc = "done"
    /\ err.kind = "json"
    /\ Contains(raw_response, ReadyMarker)
    /\ reply.trailer = Marker
    /\ AssignCalls = <<>>

\* C10 (as stated): for a reply made of a JSON array of well-formed entries
\* followed by "ACTION: READY_FOR_HUMAN_REVIEW", whatever text the path and
\* comment fields hold, the parsed payload is that array and the fallback is
\* not entered because of the parse.
C10_AsStated ==
    (/\ Generated
     /\ pc # "parse"
     /\ reply.json.t = "arr"
     /\ \A i \in 1..Len(reply.json.v) : LineConverts(reply.json.v[i])
     /\ reply.trailer = Marker)
    => /\ Payload(raw_response) = reply.body
       /\ comments.t = "arr"
       /\ comments = reply.json
       /\ err.kind # "json"

====
